---- MODULE Spec2Model ----
(***************************************************************************)
(* Model of Make_Somatic_Mutation_Overview.py: the per-sample, per-gene    *)
(* classification pipeline of main() and the helpers it calls.             *)
(*                                                                         *)
(* Numeric scales.  Severity scores are multiplied by 10 (1.5 -> 15), the  *)
(* variant allele fraction is compared as a percentage (0.25 -> 25) and    *)
(* population / cohort frequencies are per-mille (0.05 -> 50), so that the *)
(* float comparisons of the source become integer comparisons.             *)
(***************************************************************************)
EXTENDS Integers, Sequences, FiniteSets, TLC

\* ------------------------------------------------------------------ bounds
MaxFiles == 2
MaxGenes == 2
MaxRecords == 2
MaxGeneRecords == 3
MaxQCRecords == 1

\* ------------------------------------------------- option defaults (scaled)
DefaultMinDepth == 10
DefaultMinVaf == 25
DefaultPopFreq == 50
DefaultCohFreq == 100
DefaultMinEff == 15

\* ------------------------------------------------------------ static tables
vocabulary ==
    ("None" :> -10) @@ ("clean" :> 0) @@
    ("sequence_feature" :> 0) @@ ("intron_variant" :> 0) @@
    ("3_prime_UTR_variant" :> 0) @@ ("5_prime_UTR_variant" :> 0) @@
    ("non_coding_exon_variant" :> 0) @@
    ("TF_binding_site_variant" :> 5) @@ ("splice_region_variant" :> 5) @@
    ("synonymous_variant" :> 10) @@
    ("missense_variant" :> 15) @@
    ("splice_donor_variant" :> 20) @@ ("splice_acceptor_variant" :> 20) @@
    ("inframe_deletion" :> 21) @@ ("inframe_insertion" :> 21) @@
    ("disruptive_inframe_deletion" :> 25) @@
    ("disruptive_inframe_insertion" :> 25) @@
    ("5_prime_UTR_premature_start_codon_gain_variant" :> 30) @@
    ("stop_gained" :> 40) @@ ("nonsense_mediated_decay" :> 40) @@
    ("frameshift_variant" :> 40)

mapping ==
    ("synonymous_variant" :> "Silent") @@
    ("missense_variant" :> "Missense_Mutation") @@
    ("disruptive_inframe_deletion" :> "Frame_Shift_Del") @@
    ("disruptive_inframe_insertion" :> "Frame_Shift_Ins") @@
    ("5_prime_UTR_premature_start_codon_gain_variant" :> "Nonsense_Mutation") @@
    ("stop_gained" :> "Nonsense_Mutation") @@
    ("nonsense_mediated_decay" :> "Nonsense_Mutation") @@
    ("frameshift_variant" :> "Frame_Shift_???")

FREQ_FIELDS ==
    <<"dbNSFP_ExAC_AF", "dbNSFP_ExAC_Adj_AF", "GoNLv5_Freq", "GoNLv5_AF">>

\* toselect = [k for k,v in vocabulary.items() if v >= float(options.mineff)]
toselect(opt) == {k \in DOMAIN vocabulary : vocabulary[k] >= opt.mineff}

\* DEPTH_KEY / VAF_KEY as set by check_arguments() from options.format
DEPTH_KEY(opt) ==
    IF opt.format = "GATK" THEN "AD"
    ELSE IF opt.format = "FREEB" THEN "DP" ELSE ""

VAF_KEY(opt) ==
    IF opt.format = "GATK" THEN "AD"
    ELSE IF opt.format = "FREEB" THEN "DPR" ELSE ""

\* ------------------------------------------------------ python primitives
\* Python's None, for the entries of records[samplename]
None == [none |-> TRUE]

\* a null value inside an INFO frequency list
NullFreq == -1

\* l[1:]
PyTail(l) == IF l = <<>> THEN <<>> ELSE Tail(l)

RECURSIVE SumSeq(_)
SumSeq(s) == IF s = <<>> THEN 0 ELSE Head(s) + SumSeq(Tail(s))

RECURSIVE MaxSeq(_)
MaxSeq(s) ==
    IF Len(s) = 1 THEN s[1]
    ELSE LET m == MaxSeq(Tail(s)) IN IF s[1] >= m THEN s[1] ELSE m

RECURSIVE Flatten(_)
Flatten(ss) == IF ss = <<>> THEN <<>> ELSE Head(ss) \o Flatten(Tail(ss))

Count(s, x) == Cardinality({i \in DOMAIN s : s[i] = x})

\* insertion-ordered dict, a sequence of <<key, value>> pairs
Keys(d) == [i \in DOMAIN d |-> d[i][1]]
Has(d, k) == \E i \in DOMAIN d : d[i][1] = k
Get(d, k) == d[CHOOSE i \in DOMAIN d : d[i][1] = k][2]
Put(d, k, v) ==
    IF Has(d, k)
    THEN [i \in DOMAIN d |-> IF d[i][1] = k THEN <<k, v>> ELSE d[i]]
    ELSE Append(d, <<k, v>>)

\* genotype value kinds: [kind |-> "null" | "int" | "list", v |-> <<ints>>]
NullVal == [kind |-> "null", v |-> <<>>]
IntVal(n) == [kind |-> "int", v |-> <<n>>]
ListVal(l) == [kind |-> "list", v |-> l]

\* ---------------------------------------------------------- find_popfreq
\* faulty variant: a null frequency counts as 1.0
RECURSIVE PopfreqNullAsOne(_)
PopfreqNullAsOne(xs) ==
    IF xs = <<>> THEN <<>>
    ELSE <<IF Head(xs) = NullFreq THEN 1000 ELSE Head(xs)>>
         \o PopfreqNullAsOne(Tail(xs))

RECURSIVE PopfreqOfField(_)
PopfreqOfField(xs) ==
    IF xs = <<>> THEN <<>>
    ELSE <<IF Head(xs) = NullFreq THEN 0 ELSE Head(xs)>>
         \o PopfreqOfField(Tail(xs))

RECURSIVE PopfreqFrom(_, _)
PopfreqFrom(info, i) ==
    IF i > Len(FREQ_FIELDS) THEN <<>>
    ELSE (IF FREQ_FIELDS[i] \in DOMAIN info
          THEN PopfreqOfField(info[FREQ_FIELDS[i]]) ELSE <<>>)
         \o PopfreqFrom(info, i + 1)

find_popfreq(vcf_record) == <<0>> \o PopfreqFrom(vcf_record.INFO, 1)

\* ---------------------------------------------------------- find_effects
\* canonical transcript of an Ensembl gene id, the answer of get_canonical()
get_canonical(gene) == "T1"

\* an annotation entry after pred.split("|"): items[0], items[1] split on
\* "&", items[3], items[4], items[6], items[10]
Ann(allele, effect, gname, gid, tid, prot) ==
    [allele |-> allele, effect |-> effect, gene_name |-> gname,
     gene_id |-> gid, feature_id |-> tid, hgvs_p |-> prot]

\* entries that survive the allele filter and the canonical filter
UsedAnn(opt, pred, sample_gt) ==
    /\ pred.allele = sample_gt
    /\ opt.canonical =>
          /\ ~(Len(pred.gene_id) <= 1)
          /\ pred.feature_id = get_canonical(pred.gene_id)

\* faulty variant: the severity comparison is reversed
RECURSIVE MinOfEffects(_, _)
MinOfEffects(effs, maxeffect) ==
    IF effs = <<>> THEN maxeffect
    ELSE LET effect == Head(effs) IN
         MinOfEffects(Tail(effs),
             IF effect \notin DOMAIN vocabulary THEN maxeffect
             ELSE IF maxeffect = "None"
                     \/ vocabulary[effect] < vocabulary[maxeffect]
                  THEN effect ELSE maxeffect)

RECURSIVE MaxOfEffects(_, _)
MaxOfEffects(effs, maxeffect) ==
    IF effs = <<>> THEN maxeffect
    ELSE LET effect == Head(effs) IN
         MaxOfEffects(Tail(effs),
             IF effect \notin DOMAIN vocabulary THEN maxeffect
             ELSE IF vocabulary[effect] > vocabulary[maxeffect]
                  THEN effect ELSE maxeffect)

RECURSIVE EffectsLoop(_, _, _, _)
EffectsLoop(opt, preds, sample_gt, maxeffect) ==
    IF preds = <<>> THEN maxeffect
    ELSE LET pred == Head(preds) IN
         EffectsLoop(opt, Tail(preds), sample_gt,
             IF UsedAnn(opt, pred, sample_gt)
             THEN MaxOfEffects(pred.effect, maxeffect)
             ELSE maxeffect)

find_effects(opt, vcf_record, sample_gt) ==
    IF "ANN" \notin DOMAIN vcf_record.INFO THEN "None"
    ELSE EffectsLoop(opt, vcf_record.INFO["ANN"], sample_gt, "None")

\* ------------------------------------------------- select_maximum_effect
\* np.argmax scans the values and keeps the first maximum (1-based here)
\* faulty variant: a later equal value replaces the maximum
RECURSIVE ArgMaxLast(_, _, _)
ArgMaxLast(vals, i, best) ==
    IF i > Len(vals) THEN best
    ELSE ArgMaxLast(vals, i + 1, IF vals[i] >= vals[best] THEN i ELSE best)

RECURSIVE ArgMaxFrom(_, _, _)
ArgMaxFrom(vals, i, best) ==
    IF i > Len(vals) THEN best
    ELSE ArgMaxFrom(vals, i + 1, IF vals[i] > vals[best] THEN i ELSE best)

select_maximum_effect(effs) ==
    LET effectvalues == [i \in DOMAIN effs |-> vocabulary[effs[i]]]
    IN ArgMaxFrom(effectvalues, 2, 1)

\* ------------------------------------------- check_ad / check_depth / vaf
\* sample_vcf[key] raises AttributeError when the FORMAT field is absent
check_ad(opt, sample_vcf) ==
    /\ DEPTH_KEY(opt) \in DOMAIN sample_vcf.data
    /\ sample_vcf.data[DEPTH_KEY(opt)].kind # "null"

\* faulty variant: the depth threshold itself is rejected
check_depth_exclusive(opt, sample_vcf) ==
    LET d == sample_vcf.data[DEPTH_KEY(opt)] IN
    IF d.kind = "int" THEN ~(d.v[1] <= opt.mindepth)
    ELSE ~(SumSeq(d.v) <= opt.mindepth)

\* faulty variant: the depth comparison is reversed
check_depth_reversed(opt, sample_vcf) ==
    LET d == sample_vcf.data[DEPTH_KEY(opt)] IN
    IF d.kind = "int" THEN ~(d.v[1] > opt.mindepth)
    ELSE ~(SumSeq(d.v) > opt.mindepth)

check_depth(opt, sample_vcf) ==
    LET d == sample_vcf.data[DEPTH_KEY(opt)] IN
    IF d.kind = "int" THEN ~(d.v[1] < opt.mindepth)
    ELSE ~(SumSeq(d.v) < opt.mindepth)

\* sum(x[VAF_KEY][1:]) * 100 < minvaf * depth  <=>  sum/depth < minvaf
check_vaf(opt, sample_vcf) ==
    LET d == sample_vcf.data[DEPTH_KEY(opt)]
        a == sample_vcf.data[VAF_KEY(opt)] IN
    IF d.kind = "int"
    THEN ~(SumSeq(PyTail(a.v)) * 100 < opt.minvaf * d.v[1])
    ELSE ~(SumSeq(PyTail(a.v)) * 100 < opt.minvaf * SumSeq(d.v))

\* ------------------------------------------------------ genotype decoding
\* GT is a sequence of characters, e.g. <<"0", "/", "1">>
DigitVal(c) ==
    CASE c = "0" -> 0 [] c = "1" -> 1 [] c = "2" -> 2 [] c = "3" -> 3
      [] c = "4" -> 4 [] c = "5" -> 5 [] c = "6" -> 6 [] c = "7" -> 7
      [] c = "8" -> 8 [] c = "9" -> 9

\* str.replace("|", "")
ReplaceBar(gt) == SelectSeq(gt, LAMBDA c : c # "|")

\* the last element of str.split("/")
RECURSIVE LastField(_, _)
LastField(s, acc) ==
    IF s = <<>> THEN acc
    ELSE IF Head(s) = "/" THEN LastField(Tail(s), <<>>)
    ELSE LastField(Tail(s), Append(acc, Head(s)))

\* int() of a digit string
RECURSIVE IntOf(_, _)
IntOf(s, acc) ==
    IF s = <<>> THEN acc ELSE IntOf(Tail(s), 10 * acc + DigitVal(Head(s)))

\* int(sample_call[-1]) - 1, the python index into ALT
CallIndex(gt) == IntOf(LastField(ReplaceBar(gt), <<>>), 0) - 1

\* python list indexing: negative indices wrap once, otherwise IndexError
IndexOK(l, i) == -Len(l) <= i /\ i < Len(l)
PyIndex(l, i) == IF i >= 0 THEN l[i + 1] ELSE l[Len(l) + i + 1]

\* -------------------------------------------------- per-sample QC and call
\* the expression logged as VAF right after the depth check:
\*   sum(genotype[VAF_KEY][1:]) * 1.0 / sum(genotype[DEPTH_KEY])
VafLogError(opt, sample_vcf) ==
    LET vk == VAF_KEY(opt)
        dk == DEPTH_KEY(opt) IN
    IF vk \notin DOMAIN sample_vcf.data THEN "AttributeError"
    ELSE IF sample_vcf.data[vk].kind # "list" THEN "TypeError"
    ELSE IF sample_vcf.data[dk].kind = "int" THEN "TypeError"
    ELSE IF SumSeq(sample_vcf.data[dk].v) = 0 THEN "ZeroDivisionError"
    ELSE ""

\* body of "for samplename in df" for one record and one genotype block:
\* PASS, the <<effect, record>> pairs appended, and the exception raised
SampleStep(opt, vcf_record, sgenot) ==
    LET clean == <<<<"clean", None>>>>
        out(p, a, e) == [PASS |-> p, added |-> a, err |-> e] IN
    IF ~check_ad(opt, sgenot) THEN out(FALSE, <<>>, "")
    ELSE IF ~check_depth(opt, sgenot) THEN out(FALSE, <<>>, "")
    ELSE IF VafLogError(opt, sgenot) # ""
         THEN out(FALSE, <<>>, VafLogError(opt, sgenot))
    ELSE IF ~check_vaf(opt, sgenot) THEN out(FALSE, clean, "")
    ELSE IF ~(MaxSeq(find_popfreq(vcf_record)) <= opt.popfreq)
         THEN out(FALSE, clean, "")
    ELSE IF "MLEAF" \notin DOMAIN vcf_record.INFO
         THEN out(FALSE, clean, "KeyError")
    ELSE IF ~(MaxSeq(vcf_record.INFO["MLEAF"]) <= opt.cohfreq)
         THEN out(FALSE, clean, "")
    ELSE IF ~IndexOK(vcf_record.ALT, CallIndex(sgenot.GT))
         THEN out(TRUE, clean, "IndexError")
    ELSE LET sample_gt == PyIndex(vcf_record.ALT, CallIndex(sgenot.GT)) IN
         out(TRUE,
             clean \o <<<<find_effects(opt, vcf_record, sample_gt),
                          vcf_record>>>>,
             "")

\* "for samplename in df" over one record; stops at the first exception.
\* st = [effects, records, trace, err]
RECURSIVE SampleLoop(_, _, _, _)
SampleLoop(opt, vcf_record, names, st) ==
    IF names = <<>> \/ st.err # "" THEN st
    ELSE LET samplename == Head(names) IN
         IF samplename \notin DOMAIN vcf_record.calls
         THEN \* genotype() raised, "except AttributeError: continue"
              SampleLoop(opt, vcf_record, Tail(names), st)
         ELSE LET r == SampleStep(opt, vcf_record,
                                  vcf_record.calls[samplename])
                  effs == Get(st.effects, samplename)
                  recs == Get(st.records, samplename)
              IN SampleLoop(opt, vcf_record, Tail(names),
                   [effects |-> Put(st.effects, samplename,
                        effs \o [i \in DOMAIN r.added |-> r.added[i][1]]),
                    records |-> Put(st.records, samplename,
                        recs \o [i \in DOMAIN r.added |-> r.added[i][2]]),
                    trace |-> Append(st.trace,
                        [sample |-> samplename, n0 |-> Len(effs),
                         PASS |-> r.PASS, err |-> r.err]),
                    err |-> r.err])

\* ---------------------------------------------------------- gene level
\* gencheck: the gene symbol occurs in at least one annotation entry
gencheck(vcf_record, symbol) ==
    \E i \in DOMAIN vcf_record.INFO["ANN"] :
        LET a == vcf_record.INFO["ANN"][i] IN
        symbol \in {a.allele, a.gene_name, a.gene_id, a.feature_id, a.hgvs_p}
           \/ \E j \in DOMAIN a.effect : a.effect[j] = symbol

\* faulty variant: strictly more than half of the positions must be clean
CleanMajority(effs, nr) == 2 * Count(effs, "clean") > nr

\* effects.count("clean") >= (nr_of_positions/2), a true division
CleanEnough(effs, nr) == 2 * Count(effs, "clean") >= nr

\* one sample of the "ON GENE+SAMPLE LEVEL" loop.
\* st = [df, cdf, rdf]
AggregateSample(opt, symbol, nr, effs, recs, samplename, st) ==
    IF Len(effs) <= 0
    THEN [df |-> Put(st.df, samplename,
                     Put(Get(st.df, samplename), symbol, "None")),
          cdf |-> Put(st.cdf, samplename,
                      Put(Get(st.cdf, samplename), symbol, 0)),
          rdf |-> st.rdf]
    ELSE LET cnt == Cardinality({i \in DOMAIN effs :
                                    effs[i] \in toselect(opt)})
             loc == select_maximum_effect(effs)
             eff == effs[loc]
             cdf1 == Put(st.cdf, samplename,
                         Put(Get(st.cdf, samplename), symbol, cnt))
         IN IF eff \in toselect(opt)
            THEN [df |-> Put(st.df, samplename,
                             Put(Get(st.df, samplename), symbol, eff)),
                  cdf |-> cdf1,
                  rdf |-> IF eff \in DOMAIN mapping
                          THEN Put(st.rdf, samplename,
                                   Put(Get(st.rdf, samplename), symbol,
                                       [REC |-> recs[loc], EFF |-> eff]))
                          ELSE st.rdf]
            ELSE [df |-> Put(st.df, samplename,
                             Put(Get(st.df, samplename), symbol,
                                 IF CleanEnough(effs, nr)
                                 THEN "clean" ELSE "None")),
                  cdf |-> cdf1,
                  rdf |-> st.rdf]

RECURSIVE AggregateLoop(_, _, _, _, _, _, _)
AggregateLoop(opt, symbol, nr, effs, recs, names, st) ==
    IF names = <<>> THEN st
    ELSE AggregateLoop(opt, symbol, nr, effs, recs, Tail(names),
             AggregateSample(opt, symbol, nr, Get(effs, Head(names)),
                             Get(recs, Head(names)), Head(names), st))

\* the "NO RECORDS FOUND" branch: df only
RECURSIVE MarkNone(_, _, _)
MarkNone(d, names, symbol) ==
    IF names = <<>> THEN d
    ELSE MarkNone(Put(d, Head(names), Put(Get(d, Head(names)), symbol, "None")),
                  Tail(names), symbol)

\* "Prep containers"
RECURSIVE EmptyLists(_)
EmptyLists(names) ==
    IF names = <<>> THEN <<>>
    ELSE <<<<Head(names), <<>>>>>> \o EmptyLists(Tail(names))

\* "FOR EACH SAMPLE": df[samplename] = {} etc.  Under FREEB the name is
\* vcfread.samples[i+1], which raises IndexError for the last sample.
RECURSIVE ResetSamples(_, _, _, _)
ResetSamples(opt, smp, i, d) ==
    IF i > Len(smp) THEN d
    ELSE IF opt.format = "GATK"
         THEN ResetSamples(opt, smp, i + 1, Put(d, smp[i], <<>>))
    ELSE IF i + 1 > Len(smp) THEN d
    ELSE ResetSamples(opt, smp, i + 1, Put(d, smp[i + 1], <<>>))

SampleSetupError(opt, smp) ==
    IF opt.format = "FREEB" /\ Len(smp) > 0 THEN "IndexError" ELSE ""

\* ------------------------------------------------------------- reporting
\* the annotation entries whose effect terms include eff
WithEffect(preds, eff) ==
    {i \in DOMAIN preds : \E j \in DOMAIN preds[i].effect :
                              preds[i].effect[j] = eff}

\* protein change of the first annotation entry carrying the effect;
\* proteffect stays None when there is no such entry
FirstProt(preds, eff) ==
    preds[CHOOSE i \in WithEffect(preds, eff) :
              \A k \in WithEffect(preds, eff) : i <= k].hgvs_p

\* round(x, 2) of the allele fraction, as a percentage
RoundedVaf(alt, depth) == (200 * alt + depth) \div (2 * depth)

\* faulty variant: the row reports the first alternate allele, as the debug line
ChartRowFirstAlt(opt, samplename, gene, entry) ==
    LET thisrec == entry.REC
        call == thisrec.calls[samplename]
        sample_gt == thisrec.ALT[1]
    IN [Hugo_Symbol |-> gene, Sample_ID |-> samplename,
        Protein_Change |-> FirstProt(thisrec.INFO["ANN"], entry.EFF),
        Mutation_Type |-> mapping[entry.EFF],
        Chromosome |-> thisrec.CHROM,
        Start_Position |-> thisrec.POS,
        End_Position |-> thisrec.POS + Len(sample_gt),
        Reference_Allele |-> thisrec.REF,
        Variant_Allele |-> sample_gt,
        VAF |-> RoundedVaf(SumSeq(PyTail(call.data[VAF_KEY(opt)].v)),
                           SumSeq(call.data[DEPTH_KEY(opt)].v))]

\* one row of MutationChart.txt
ChartRow(opt, samplename, gene, entry) ==
    LET thisrec == entry.REC
        call == thisrec.calls[samplename]
        sample_gt == PyIndex(thisrec.ALT, CallIndex(call.GT))
    IN [Hugo_Symbol |-> gene, Sample_ID |-> samplename,
        Protein_Change |-> FirstProt(thisrec.INFO["ANN"], entry.EFF),
        Mutation_Type |-> mapping[entry.EFF],
        Chromosome |-> thisrec.CHROM,
        Start_Position |-> thisrec.POS,
        End_Position |-> thisrec.POS + Len(sample_gt),
        Reference_Allele |-> thisrec.REF,
        Variant_Allele |-> sample_gt,
        VAF |-> RoundedVaf(SumSeq(PyTail(call.data[VAF_KEY(opt)].v)),
                           SumSeq(call.data[DEPTH_KEY(opt)].v))]

ChartRowError(opt, samplename, entry) ==
    LET thisrec == entry.REC IN
    IF thisrec = None THEN "AttributeError"
    ELSE LET call == thisrec.calls[samplename] IN
         IF call.data[DEPTH_KEY(opt)].kind = "int" THEN "TypeError"
         ELSE IF SumSeq(call.data[DEPTH_KEY(opt)].v) = 0
              THEN "ZeroDivisionError"
         ELSE IF ~IndexOK(thisrec.ALT, CallIndex(call.GT)) THEN "IndexError"
         ELSE IF WithEffect(thisrec.INFO["ANN"], entry.EFF) = {}
              THEN "TypeError"
         ELSE ""

\* all <<samplename, gene>> pairs of rdf in iteration order
RdfPairs(rdf) ==
    Flatten([i \in DOMAIN rdf |->
               [j \in DOMAIN rdf[i][2] |-> <<rdf[i][1], rdf[i][2][j][1]>>]])

\* rows written before the first failing row, and that row's exception
RECURSIVE ChartLoop(_, _, _, _)
ChartLoop(opt, rdf, pairs, st) ==
    IF pairs = <<>> \/ st.err # "" THEN st
    ELSE LET samplename == Head(pairs)[1]
             gene == Head(pairs)[2]
             entry == Get(Get(rdf, samplename), gene)
             e == ChartRowError(opt, samplename, entry)
         IN ChartLoop(opt, rdf, Tail(pairs),
                IF e # "" THEN [rows |-> st.rows, err |-> e]
                ELSE [rows |-> Append(st.rows,
                                  ChartRow(opt, samplename, gene, entry)),
                      err |-> ""])

\* ------------------------------------------------------------ the inputs
\* The run is given file_list, genelist and the indexed variant source.
\* input = [kind, files, genes, records] describes them: at most
\* input.files VCF files, exactly input.genes genes, at most input.records
\* records returned by all region queries together, and records of kind
\*   "cohort": several files and genes, covered positions only,
\*   "gene":   one file and one gene with several positions,
\*   "qc":     one sample, every case of the per-position QC.
GeneSymbols == <<"TP53", "KRAS", "BRAF", "PTEN">>
GeneIds == <<"ENSG01", "ENSG02", "ENSG03", "ENSG04">>

\* genelist, the unpickled / looked-up gene definitions
genelist ==
    [g \in DOMAIN GeneSymbols |->
        [Chr |-> g, Start |-> 1000 * g, Stop |-> 1000 * g + 900,
         SYMBOL |-> GeneSymbols[g], ENSEMBLID |-> GeneIds[g]]]

MinDepths == {0, DefaultMinDepth, 21}

Options ==
    [format : {"GATK", "FREEB"}, mindepth : MinDepths,
     minvaf : {DefaultMinVaf}, popfreq : {DefaultPopFreq},
     cohfreq : {DefaultCohFreq}, mineff : {DefaultMinEff},
     canonical : BOOLEAN]

DefaultOptions ==
    {o \in Options : o.mindepth = DefaultMinDepth /\ ~o.canonical}

OptionsOf(kind) == IF kind = "qc" THEN Options ELSE DefaultOptions

SampleLists(kind) ==
    CASE kind = "qc" -> {<<"S1">>}
      [] kind = "gene" -> {<<"S1">>, <<"S1", "S2">>}
      [] OTHER -> {<<"S1">>, <<"S2">>, <<"S1", "S2">>}

NoFields == [x \in {} |-> 0]

\* ALT alleles and ANN entries of the records a region query may return
CohortVariants(g) ==
    LET sym == GeneSymbols[g]
        gid == GeneIds[g] IN
    { [ALT |-> <<"T">>,
       INFO |-> "ANN" :> <<Ann("T", <<"missense_variant">>, sym, gid,
                               "T1", "p.R1H")>>],
      [ALT |-> <<"T">>,
       INFO |-> "ANN" :> <<Ann("T", <<"splice_donor_variant",
                                      "intron_variant">>, sym, gid,
                               "T1", "")>>] }

GeneVariants(g) ==
    LET sym == GeneSymbols[g]
        gid == GeneIds[g] IN
    CohortVariants(g) \cup
    { [ALT |-> <<"T", "GA">>,
       INFO |-> "ANN" :> <<Ann("T", <<"synonymous_variant">>, sym, gid,
                               "T1", "p.L2L"),
                           Ann("T", <<"stop_gained">>, sym, gid,
                               "T2", "p.Q2*"),
                           Ann("GA", <<"upstream_gene_variant",
                                       "frameshift_variant">>, sym, gid,
                               "T1", "p.Q2fs")>>],
      [ALT |-> <<"T">>,
       INFO |-> "ANN" :> <<Ann("T", <<"upstream_gene_variant">>, sym, "",
                               "T1", ""),
                           Ann("T", <<"intron_variant">>, sym, "",
                               "T1", ""),
                           Ann("C", <<"stop_gained">>, sym, gid,
                               "T1", "p.W3*")>>],
      [ALT |-> <<"T">>,
       INFO |-> "ANN" :> <<Ann("T", <<"stop_gained">>, "NRAS", "ENSG09",
                               "T1", "p.R4*")>>] }

QcVariants(g) ==
    GeneVariants(g) \cup { [ALT |-> <<"T">>, INFO |-> NoFields] }

Variants(kind, g) ==
    CASE kind = "qc" -> QcVariants(g)
      [] kind = "gene" -> GeneVariants(g)
      [] OTHER -> CohortVariants(g)

\* population / cohort frequency fields carried by a record
FreqInfos(kind) ==
    IF kind = "qc"
    THEN { "MLEAF" :> <<20>>,
           ("dbNSFP_ExAC_AF" :> <<NullFreq>>) @@ ("GoNLv5_AF" :> <<10, 50>>)
               @@ ("MLEAF" :> <<100>>),
           ("dbNSFP_ExAC_Adj_AF" :> <<51>>) @@ ("MLEAF" :> <<20>>),
           "MLEAF" :> <<20, 101>>,
           NoFields,
           "GoNLv5_Freq" :> <<100>> }
    ELSE { "MLEAF" :> <<20>> }

\* a genotype block in the layout of options.format: AD = [ref, alt, ...]
\* for GATK, DP = total depth and DPR = [ref, alt, ...] for FREEB
Layout(opt, ad) ==
    IF opt.format = "GATK" THEN "AD" :> ListVal(ad)
    ELSE ("DP" :> IntVal(SumSeq(ad))) @@ ("DPR" :> ListVal(ad))

NullLayout(opt) ==
    IF opt.format = "GATK" THEN "AD" :> NullVal
    ELSE ("DP" :> NullVal) @@ ("DPR" :> NullVal)

GTs(kind, alt) ==
    {<<"0", "/", "1">>}
      \cup (IF kind = "qc" THEN {<<"0", "|", "1">>, <<"1", "|", "1">>}
            ELSE {})
      \cup (IF Len(alt) > 1 THEN {<<"1", "/", "2">>} ELSE {})

\* the genotype blocks of one sample; files with several samples and
\* "cohort" files carry only covered blocks
Calls(kind, opt, alt, nsamples) ==
    IF nsamples > 1 \/ kind = "cohort"
    THEN {[GT |-> <<"0", "/", "1">>, data |-> Layout(opt, ad)] :
             ad \in {<<8, 2>>, <<5, 15>>}}
    ELSE {[GT |-> <<"0", "/", "1">>, data |-> d] :
             d \in {NoFields, Layout(opt, <<8, 2>>)}
                      \cup (IF kind = "qc"
                            THEN {NullLayout(opt), Layout(opt, <<3, 4>>),
                                  Layout(opt, <<0, 0>>)}
                            ELSE {})}
           \cup {[GT |-> gt, data |-> Layout(opt, <<5, 15>>)] :
                    gt \in GTs(kind, alt)}

Records(kind, opt, g, pos, smp) ==
    UNION { { [CHROM |-> genelist[g].Chr, POS |-> pos, REF |-> "A",
               ALT |-> v.ALT, INFO |-> v.INFO @@ f, calls |-> c] :
                 f \in FreqInfos(kind),
                 c \in [{smp[i] : i \in DOMAIN smp}
                          -> Calls(kind, opt, v.ALT, Len(smp))] } :
            v \in Variants(kind, g) }

\* --------------------------------------------------------------- the state
VARIABLES input, options, pc, err, fi, samples, gi, nr_of_positions,
          fetched, df, rdf, cdf, effects, records, vcf_record, trace, chart

vars == <<input, options, pc, err, fi, samples, gi, nr_of_positions,
          fetched, df, rdf, cdf, effects, records, vcf_record, trace, chart>>

thisgene == genelist[gi]

\* control is at "for vcf_file in file_list" / "for thisgene in genelist"
AtFileLoop ==
    pc = "start" \/ (pc \in {"norecords", "aggregated"} /\ gi = input.genes)
AtGeneLoop ==
    pc = "opened" \/ (pc \in {"norecords", "aggregated"} /\ gi < input.genes)

InitRun ==
    /\ pc = "start" /\ err = ""
    /\ fi = 0 /\ samples = <<>> /\ gi = 0
    /\ nr_of_positions = 0 /\ fetched = 0
    /\ df = <<>> /\ rdf = <<>> /\ cdf = <<>>
    /\ effects = <<>> /\ records = <<>>
    /\ vcf_record = None /\ trace = <<>> /\ chart = <<>>

InitOf(kind, files, genes, nrecords) ==
    /\ input = [kind |-> kind, files |-> files, genes |-> genes,
                records |-> nrecords]
    /\ options \in OptionsOf(kind)
    /\ InitRun

Init == InitOf("cohort", MaxFiles, MaxGenes, MaxRecords)

InitGene == InitOf("gene", 1, 1, MaxGeneRecords)

InitQC == InitOf("qc", 1, 1, MaxQCRecords)

\* open the next VCF file and reset the tables of its samples
FileOpen ==
    /\ AtFileLoop /\ fi < input.files
    /\ \E smp \in SampleLists(input.kind) :
         /\ samples' = smp
         /\ df' = ResetSamples(options, smp, 1, df)
         /\ rdf' = ResetSamples(options, smp, 1, rdf)
         /\ cdf' = ResetSamples(options, smp, 1, cdf)
         /\ err' = SampleSetupError(options, smp)
         /\ pc' = IF SampleSetupError(options, smp) # ""
                  THEN "crashed" ELSE "opened"
    /\ fi' = fi + 1 /\ gi' = 0
    /\ UNCHANGED <<input, options, nr_of_positions, fetched, effects,
                   records, vcf_record, trace, chart>>

\* vcfread.fetch raises ValueError: the gene is marked None in df only
FetchNoRecords ==
    /\ AtGeneLoop
    /\ gi' = gi + 1 /\ nr_of_positions' = 0
    /\ df' = MarkNone(df, Keys(df), genelist[gi + 1].SYMBOL)
    /\ pc' = "norecords"
    /\ UNCHANGED <<input, options, err, fi, samples, fetched, rdf, cdf,
                   effects, records, vcf_record, trace, chart>>

\* vcfread.fetch succeeds: prepare the per-sample containers
FetchRecords ==
    /\ AtGeneLoop
    /\ gi' = gi + 1 /\ nr_of_positions' = 0
    /\ effects' = EmptyLists(Keys(df))
    /\ records' = EmptyLists(Keys(df))
    /\ pc' = "fetched"
    /\ UNCHANGED <<input, options, err, fi, samples, fetched, df, rdf, cdf,
                   vcf_record, trace, chart>>

\* one iteration of "for vcf_record in vcf_records"
Record ==
    /\ pc \in {"fetched", "record"} /\ fetched < input.records
    /\ fetched' = fetched + 1
    /\ \E rec \in Records(input.kind, options, gi,
                          genelist[gi].Start + fetched, samples) :
         /\ vcf_record' = rec
         /\ IF "ANN" \notin DOMAIN rec.INFO
               \/ ~gencheck(rec, thisgene.SYMBOL)
            THEN /\ trace' = <<>> /\ pc' = "record"
                 /\ UNCHANGED <<nr_of_positions, effects, records, err>>
            ELSE LET st == SampleLoop(options, rec, Keys(df),
                               [effects |-> effects, records |-> records,
                                trace |-> <<>>, err |-> ""])
                 IN /\ nr_of_positions' = nr_of_positions + 1
                    /\ effects' = st.effects
                    /\ records' = st.records
                    /\ trace' = st.trace
                    /\ err' = st.err
                    /\ pc' = IF st.err # "" THEN "crashed" ELSE "record"
    /\ UNCHANGED <<input, options, fi, samples, gi, df, rdf, cdf, chart>>

\* the records of the gene are exhausted: classify it for every sample
Aggregate ==
    /\ pc \in {"fetched", "record"}
    /\ LET st == AggregateLoop(options, thisgene.SYMBOL, nr_of_positions,
                               effects, records, Keys(df),
                               [df |-> df, cdf |-> cdf, rdf |-> rdf])
       IN /\ df' = st.df /\ cdf' = st.cdf /\ rdf' = st.rdf
    /\ pc' = "aggregated"
    /\ vcf_record' = None /\ trace' = <<>>
    /\ UNCHANGED <<input, options, err, fi, samples, gi, nr_of_positions,
                   fetched, effects, records, chart>>

\* all files are processed: write the three tables
Report ==
    /\ AtFileLoop
    /\ LET e0 == IF df = <<>> THEN "IndexError" ELSE ""
           st == ChartLoop(options, rdf, RdfPairs(rdf),
                           [rows |-> <<>>, err |-> e0])
       IN /\ chart' = st.rows
          /\ err' = st.err
          /\ pc' = IF st.err # "" THEN "crashed" ELSE "done"
    /\ UNCHANGED <<input, options, fi, samples, gi, nr_of_positions,
                   fetched, df, rdf, cdf, effects, records, vcf_record,
                   trace>>

Next ==
    \/ FileOpen
    \/ FetchNoRecords
    \/ FetchRecords
    \/ Record
    \/ Aggregate
    \/ Report

Spec == Init /\ [][Next]_vars

SpecGene == InitGene /\ [][Next]_vars

SpecQC == InitQC /\ [][Next]_vars

\* ------------------------------------------------- vocabulary of the properties
Range(q) == {q[i] : i \in DOMAIN q}

\* the entries the latest per-sample step appended for trace entry e
Appended(e) ==
    LET effs == Get(effects, e.sample) IN SubSeq(effs, e.n0 + 1, Len(effs))

\* the genotype block trace entry e is about
CallOf(e) == vcf_record.calls[e.sample]

\* allele-support field present and not null
SupportPresent(opt, call) ==
    /\ VAF_KEY(opt) \in DOMAIN call.data
    /\ call.data[VAF_KEY(opt)].kind # "null"

\* total depth: the scalar, or the sum over the allele-support entries
TotalDepth(opt, call) ==
    LET d == call.data[DEPTH_KEY(opt)] IN
    IF d.kind = "int" THEN d.v[1] ELSE SumSeq(d.v)

AltSupport(opt, call) == SumSeq(PyTail(call.data[VAF_KEY(opt)].v))

\* the alternate allele a diploid unphased or phased genotype calls:
\* ALT[b-1] (0-based) for "a/b" and "a|b"
CalledAlt(rec, call) == rec.ALT[DigitVal(call.GT[Len(call.GT)])]

\* a trace entry of the latest record exists only after Record has run
Stepped == pc \in {"record", "crashed"} /\ trace # <<>>

\* C1 (as stated): every (sample, position) pair with allele support
\* present and total depth >= minDepth adds exactly one entry, "clean" or,
\* for a PASSing record, the resolved effect instead; otherwise it adds no
\* entry; so a sample's effect sequence is never longer than the number of
\* annotated positions.  Stated for the steps that complete.
C1_Original ==
    /\ Stepped =>
         \A i \in DOMAIN trace :
            LET e == trace[i]
                c == CallOf(e)
                covered == SupportPresent(options, c)
                             /\ TotalDepth(options, c) >= options.mindepth
            IN e.err = "" =>
                 IF covered
                 THEN /\ Len(Appended(e)) = 1
                      /\ ~e.PASS => Appended(e) = <<"clean">>
                 ELSE Appended(e) = <<>>
    /\ pc \in {"fetched", "record", "aggregated"} =>
         \A i \in DOMAIN effects : Len(effects[i][2]) <= nr_of_positions

\* C1 (amended): a (sample, position) pair adds no entry when the allele
\* support is missing or null or the total depth is below minDepth; one
\* "clean" entry when the depth suffices and a later gate fails; two entries,
\* "clean" followed by the resolved effect, when the record PASSes; a step
\* that raises adds at most the "clean" entry.  An effect sequence is never
\* longer than twice the number of annotated positions.
C1_SlotAccounting ==
    /\ Stepped =>
         \A i \in DOMAIN trace :
            LET e == trace[i]
                c == CallOf(e)
                covered == SupportPresent(options, c)
                             /\ TotalDepth(options, c) >= options.mindepth
            IN /\ ~covered => Appended(e) = <<>>
               /\ covered /\ e.err = "" /\ ~e.PASS
                     => Appended(e) = <<"clean">>
               /\ e.PASS /\ e.err = ""
                     => Appended(e) =
                          <<"clean", find_effects(options, vcf_record,
                                         CalledAlt(vcf_record, c))>>
               /\ e.err # "" => Appended(e) \in {<<>>, <<"clean">>}
    /\ pc \in {"fetched", "record", "aggregated"} =>
         \A i \in DOMAIN effects : Len(effects[i][2]) <= 2 * nr_of_positions

\* a PASSing position has added "clean" and the resolved effect
C1_Witness ==
    /\ pc = "record"
    /\ \E i \in DOMAIN trace :
          /\ trace[i].PASS /\ trace[i].err = ""
          /\ Len(Appended(trace[i])) = 2
          /\ Len(Get(effects, trace[i].sample)) > nr_of_positions

\* the five stages of the Record Filter, each "pass", "fail" or "nodata"
\* (the data the stage compares is absent)
Stage1(opt, call) ==
    IF SupportPresent(opt, call) THEN "pass" ELSE "fail"
Stage2(opt, call) ==
    IF TotalDepth(opt, call) >= opt.mindepth THEN "pass" ELSE "fail"
Stage3(opt, call) ==
    IF TotalDepth(opt, call) = 0 THEN "nodata"
    ELSE IF AltSupport(opt, call) * 100 >= opt.minvaf * TotalDepth(opt, call)
         THEN "pass" ELSE "fail"
Stage4(opt, rec) ==
    IF \A k \in DOMAIN FREQ_FIELDS :
          FREQ_FIELDS[k] \in DOMAIN rec.INFO =>
             \A j \in DOMAIN rec.INFO[FREQ_FIELDS[k]] :
                rec.INFO[FREQ_FIELDS[k]][j] <= opt.popfreq
    THEN "pass" ELSE "fail"
Stage5(opt, rec) ==
    IF "MLEAF" \notin DOMAIN rec.INFO THEN "nodata"
    ELSE IF \A j \in DOMAIN rec.INFO["MLEAF"] :
               rec.INFO["MLEAF"][j] <= opt.cohfreq
         THEN "pass" ELSE "fail"

\* the outcome of the first stage that does not pass, "pass" if all five do
Gate(opt, rec, call) ==
    IF Stage1(opt, call) # "pass" THEN Stage1(opt, call)
    ELSE IF Stage2(opt, call) # "pass" THEN Stage2(opt, call)
    ELSE IF Stage3(opt, call) # "pass" THEN Stage3(opt, call)
    ELSE IF Stage4(opt, rec) # "pass" THEN Stage4(opt, rec)
    ELSE Stage5(opt, rec)

\* C5: PASS is true exactly when all five stages hold, in order: allele
\* support present, total depth >= minDepth, allele fraction >= minVAF,
\* maximum population frequency <= maxPopFreq with missing fields and null
\* values counting 0.0, maximum cohort frequency <= maxCohortFreq; and a
\* record whose first failing stage comes before the stage whose data it
\* lacks yields FAIL without an error.
C5_FilterGate ==
    Stepped =>
      \A i \in DOMAIN trace :
         LET e == trace[i]
             g == Gate(options, vcf_record, CallOf(e))
         IN /\ e.PASS <=> g = "pass"
            /\ g = "fail" => ~e.PASS /\ e.err = ""

\* the population frequency is too high and MLEAF, needed only by the last
\* stage, is absent: FAIL, one "clean" entry, no error
C5_Witness ==
    /\ pc = "record"
    /\ \E i \in DOMAIN trace :
          /\ Stage1(options, CallOf(trace[i])) = "pass"
          /\ Stage2(options, CallOf(trace[i])) = "pass"
          /\ Stage3(options, CallOf(trace[i])) = "pass"
          /\ Stage4(options, vcf_record) = "fail"
          /\ Stage5(options, vcf_record) = "nodata"
          /\ ~trace[i].PASS /\ trace[i].err = ""
          /\ Appended(trace[i]) = <<"clean">>

\* the vocabulary keys among the "&"-separated terms of the annotation
\* entries of rec whose allele is the given allele (in canonical-only mode:
\* whose transcript is also the canonical transcript of the entry's gene)
EligibleTerms(opt, rec, allele) ==
    {t \in DOMAIN vocabulary :
        \E k \in DOMAIN rec.INFO["ANN"] :
           LET a == rec.INFO["ANN"][k] IN
           /\ a.allele = allele
           /\ opt.canonical =>
                 Len(a.gene_id) > 1 /\ a.feature_id = get_canonical(a.gene_id)
           /\ \E j \in DOMAIN a.effect : a.effect[j] = t}

\* C4: the effect resolved for a PASSing call is a vocabulary key of maximum
\* severity among the known "&"-separated terms of the annotation entries
\* whose allele is the called allele (in canonical-only mode: whose
\* transcript is also the canonical transcript of the entry's gene); unknown
\* terms are never returned; the result is "None" when there is no such
\* known term.
C4_EffectResolver ==
    Stepped =>
      \A i \in DOMAIN trace :
         LET e == trace[i]
             terms == EligibleTerms(options, vcf_record,
                                    CalledAlt(vcf_record, CallOf(e)))
         IN e.PASS /\ e.err = "" =>
              LET x == Appended(e)[2] IN
              /\ x \in DOMAIN vocabulary
              /\ terms = {} => x = "None"
              /\ terms # {} =>
                    /\ x \in terms
                    /\ \A t \in terms : vocabulary[t] <= vocabulary[x]

\* two entries for the called allele, synonymous_variant and stop_gained,
\* next to an entry for another allele with an unknown term
C4_Witness ==
    /\ pc = "record"
    /\ \E i \in DOMAIN trace :
          /\ trace[i].PASS /\ trace[i].err = ""
          /\ {"synonymous_variant", "stop_gained"} \subseteq
                EligibleTerms(options, vcf_record,
                              CalledAlt(vcf_record, CallOf(trace[i])))
          /\ Appended(trace[i])[2] = "stop_gained"

\* C10: for a fixed record and genotype block and any d1 <= d2, PASS with
\* minDepth = d2 implies PASS with minDepth = d1, and the step with d2 adds
\* no more entries than the step with d1; here one of d1, d2 is the
\* minDepth of the run.
C10_DepthMonotonic ==
    Stepped =>
      \A i \in DOMAIN trace : \A d \in 0..22 :
         LET e == trace[i]
             r == SampleStep([options EXCEPT !.mindepth = d], vcf_record,
                             CallOf(e))
         IN /\ d <= options.mindepth =>
                 /\ e.PASS => r.PASS
                 /\ Len(Appended(e)) <= Len(r.added)
            /\ d >= options.mindepth =>
                 /\ r.PASS => e.PASS
                 /\ Len(r.added) <= Len(Appended(e))

\* a call that PASSes with the minDepth of the run and FAILs, adding no
\* entry, with a larger one
C10_Witness ==
    /\ pc = "record"
    /\ \E i \in DOMAIN trace : \E d \in 0..22 :
          LET r == SampleStep([options EXCEPT !.mindepth = d], vcf_record,
                              CallOf(trace[i]))
          IN /\ trace[i].PASS /\ trace[i].err = ""
             /\ d > options.mindepth /\ ~r.PASS /\ r.added = <<>>

\* the same genotype block in the scalar-depth layout (DP, DPR)
AsFREEB(call) ==
    [GT |-> call.GT,
     data |-> IF "AD" \notin DOMAIN call.data THEN NoFields
              ELSE IF call.data["AD"].kind = "null"
                   THEN ("DP" :> NullVal) @@ ("DPR" :> NullVal)
              ELSE ("DP" :> IntVal(SumSeq(call.data["AD"].v)))
                   @@ ("DPR" :> call.data["AD"])]

\* C8: a block in the scalar-depth layout and a block in the per-allele-list
\* layout with the same total depth and the same support give the same
\* outcome of the per-position processing: the same PASS, the same entries
\* appended, and no error in either layout.
C8_Original ==
    Stepped /\ options.format = "GATK" =>
      \A i \in DOMAIN trace :
         LET e == trace[i]
             r == SampleStep([options EXCEPT !.format = "FREEB"],
                             vcf_record, AsFREEB(CallOf(e)))
         IN e.err = "" =>
              /\ r.err = ""
              /\ r.PASS = e.PASS
              /\ [k \in DOMAIN r.added |-> r.added[k][1]] = Appended(e)

\* the classification, count and retained record of a (sample, gene) pair
ClassOf(samplename, symbol) == Get(Get(df, samplename), symbol)
Retained(samplename, symbol) ==
    Has(rdf, samplename) /\ Has(Get(rdf, samplename), symbol)
RetainedEntry(samplename, symbol) == Get(Get(rdf, samplename), symbol)

Severity(effs, i) == vocabulary[effs[i]]

\* m is the first entry of maximum severity of effs
FirstWorst(effs, m) ==
    /\ \A j \in DOMAIN effs : Severity(effs, j) <= Severity(effs, m)
    /\ \A j \in 1..(m - 1) : Severity(effs, j) < Severity(effs, m)

\* C2: for a non-empty effect sequence the selected entry is the first
\* entry of maximum severity; when it is reportable the classification is
\* that effect name (and, when it has a MAF name, the retained record is the
\* record of that entry).
C2_WorstEffect ==
    pc = "aggregated" =>
      \A i \in DOMAIN df :
         LET s == df[i][1]
             effs == Get(effects, s)
         IN effs # <<>> =>
              \E m \in DOMAIN effs :
                 /\ FirstWorst(effs, m)
                 /\ effs[m] \in toselect(options) =>
                      /\ ClassOf(s, thisgene.SYMBOL) = effs[m]
                      /\ effs[m] \in DOMAIN mapping =>
                           /\ Retained(s, thisgene.SYMBOL)
                           /\ RetainedEntry(s, thisgene.SYMBOL) =
                                [REC |-> Get(records, s)[m], EFF |-> effs[m]]

\* two positions carry different effects of the same, maximum severity and
\* the gene is classified as the earlier one
C2_Witness ==
    /\ pc = "aggregated"
    /\ \E i \in DOMAIN df :
          LET s == df[i][1]
              effs == Get(effects, s)
          IN \E m, n \in DOMAIN effs :
                /\ m < n /\ effs[m] # effs[n]
                /\ FirstWorst(effs, m)
                /\ Severity(effs, n) = Severity(effs, m)
                /\ effs[m] \in toselect(options)
                /\ ClassOf(s, thisgene.SYMBOL) = effs[m]

\* C3: when the effect sequence of a (sample, gene) pair has no reportable
\* entry, the classification is "clean" exactly when the sequence is not
\* empty and twice its number of "clean" entries is at least the number of
\* annotated positions of the gene, and "None" otherwise; an empty sequence
\* gives "None" and count 0.
C3_CleanOrNone ==
    pc = "aggregated" =>
      \A i \in DOMAIN df :
         LET s == df[i][1]
             effs == Get(effects, s)
             class == ClassOf(s, thisgene.SYMBOL)
         IN (\A j \in DOMAIN effs : effs[j] \notin toselect(options)) =>
              /\ class \in {"clean", "None"}
              /\ class = "clean" <=>
                    /\ effs # <<>>
                    /\ 2 * Count(effs, "clean") >= nr_of_positions
              /\ effs = <<>> =>
                    Get(Get(cdf, s), thisgene.SYMBOL) = 0

\* one clean position out of two annotated positions: "clean"
C3_Witness ==
    /\ pc = "aggregated" /\ nr_of_positions = 2
    /\ \E i \in DOMAIN df :
          /\ Get(effects, df[i][1]) = <<"clean">>
          /\ ClassOf(df[i][1], thisgene.SYMBOL) = "clean"

\* C9: a retained record is not null and is the record the retained effect
\* was resolved from for that sample, and the detail row of the pair
\* reproduces the record's chromosome, position and reference allele and the
\* sample's called alternate allele, with end = start + length of that
\* allele.
C9_RoundTrip ==
    \A i \in DOMAIN rdf : \A j \in DOMAIN rdf[i][2] :
       LET s == rdf[i][1]
           g == rdf[i][2][j][1]
           entry == rdf[i][2][j][2]
           rec == entry.REC
       IN /\ rec # None
          /\ s \in DOMAIN rec.calls
          /\ Gate(options, rec, rec.calls[s]) = "pass"
          /\ entry.EFF = find_effects(options, rec,
                                      CalledAlt(rec, rec.calls[s]))
          /\ pc = "done" =>
               \E k \in DOMAIN chart :
                  /\ chart[k].Hugo_Symbol = g
                  /\ chart[k].Sample_ID = s
                  /\ chart[k].Chromosome = rec.CHROM
                  /\ chart[k].Start_Position = rec.POS
                  /\ chart[k].Reference_Allele = rec.REF
                  /\ chart[k].Variant_Allele = CalledAlt(rec, rec.calls[s])
                  /\ chart[k].End_Position =
                        rec.POS + Len(CalledAlt(rec, rec.calls[s]))

\* a detail row for a call of the second alternate allele, two bases long
C9_Witness ==
    /\ pc = "done"
    /\ \E k \in DOMAIN chart :
          /\ chart[k].Variant_Allele = "GA"
          /\ chart[k].End_Position = chart[k].Start_Position + 2
          /\ Retained(chart[k].Sample_ID, chart[k].Hugo_Symbol)

\* C6: the classification, count and retained record written for a
\* (sample, gene) pair of an earlier file are changed by no later step of
\* the run.
C6_Original ==
    [][\A i \in DOMAIN df :
          LET s == df[i][1] IN
          s \notin Range(samples') =>
             \A j \in DOMAIN df[i][2] :
                LET g == df[i][2][j][1] IN
                /\ Get(Get(df', s), g) = df[i][2][j][2]
                /\ Has(Get(cdf, s), g) =>
                      Get(Get(cdf', s), g) = Get(Get(cdf, s), g)
                /\ Has(Get(rdf, s), g) =>
                      Get(Get(rdf', s), g) = Get(Get(rdf, s), g)]_vars

\* C7: a run never finishes normally with a pair classified as a reportable
\* effect that has no MAF name and no detail row for it.
C7_Original ==
    pc = "done" =>
      \A i \in DOMAIN df : \A j \in DOMAIN df[i][2] :
         LET s == df[i][1]
             g == df[i][2][j][1]
             class == df[i][2][j][2]
         IN ~ /\ class \in toselect(options) \ DOMAIN mapping
              /\ ~\E k \in DOMAIN chart :
                     chart[k].Hugo_Symbol = g /\ chart[k].Sample_ID = s

\* C11: for a PASSing record with n alternate alleles and a genotype "a/b"
\* or "a|b" with a, b in 0..n and b >= 1, decoding raises no index error and
\* the called allele is ALT[b-1]: the entry appended after "clean" is the
\* effect resolved for that allele, in both notations.
C11_Original ==
    Stepped =>
      \A i \in DOMAIN trace :
         LET e == trace[i]
             gt == CallOf(e).GT
             n == Len(vcf_record.ALT)
         IN (/\ e.PASS
             /\ Len(gt) = 3 /\ gt[2] \in {"/", "|"}
             /\ DigitVal(gt[1]) \in 0..n /\ DigitVal(gt[3]) \in 1..n)
            => /\ e.err # "IndexError"
               /\ e.err = "" =>
                    Appended(e) =
                      <<"clean",
                        find_effects(options, vcf_record,
                                     vcf_record.ALT[DigitVal(gt[3])])>>

\* C12: once the gene loop of a file has finished, every sample of the effect
\* table has, in the count table, an entry for exactly the same genes in the
\* same order, and a gene marked "None" carries the count 0.
C12_Original ==
    (AtFileLoop /\ fi >= 1) =>
      \A i \in DOMAIN df :
         LET s == df[i][1] IN
         /\ Has(cdf, s)
         /\ Keys(Get(cdf, s)) = Keys(df[i][2])
         /\ \A j \in DOMAIN df[i][2] :
               df[i][2][j][2] = "None" =>
                  /\ Has(Get(cdf, s), df[i][2][j][1])
                  /\ Get(Get(cdf, s), df[i][2][j][1]) = 0

====
